---- MODULE Spec2Model ----
(***************************************************************************)
(* Model of the device management core of sane-airscan                     *)
(* (src/airscan-device.c): the device table and endpoint prober, the scan  *)
(* state machine, the job tracker, the read pipeline and the frontend API. *)
(*                                                                         *)
(* One device object is modelled (struct device, the record dev).  Three   *)
(* actors act on it: the event loop thread (HTTP completions, the delay    *)
(* timer, the cancel event, eloop_call), the frontend thread (open, close, *)
(* start, read, ...; it owns the event loop mutex except while it waits on *)
(* stm_cond) and sane_cancel, which may come from any thread at any time.  *)
(***************************************************************************)
EXTENDS Integers, Sequences, FiniteSets, Bags, TLC

VARIABLES
    dev,        \* struct device, with the parts of the HTTP client and of the
                \* event loop that belong to it, and the history fields h_*
    fe_pc,      \* where the frontend thread is: "idle" (in no call) or the
                \* eloop_cond_wait it is blocked in
    fe_handle,  \* the frontend holds a handle (device_open returned one)
    history,    \* the history fields h_stage, h_cancel, h_suppressed of dev
                \* are kept (fixed from the start; JobSpec keeps them)
    geom        \* the arguments of device_geom_compute and the device_geom
                \* it returned (GeomSpec; fixed elsewhere)

vars == <<dev, fe_pc, fe_handle, history, geom>>

----------------------------------------------------------------------------
(* Bounds of the model *)

\* images one job may receive
MaxImages == 2
\* endpoints in a discovered endpoint list
MaxEndpoints == 3
\* largest max_len given to device_read
MaxLen == 2
\* largest image side, line count and pixels per line of the read pipeline
MaxDim == 2
\* largest window coordinate given to device_geom_compute, in millimetres
MaxMm == 3

(* Program constants *)
DEVICE_HTTP_RETRY_ATTEMPTS == 10
DEVICE_HTTP_RETRY_PAUSE == 1

----------------------------------------------------------------------------
(* Enumerations *)

\* DEVICE_STM_STATE, in declaration order
StmOrd ==
    [CLOSED |-> 0, IDLE |-> 1, SCANNING |-> 2, CANCEL_REQ |-> 3,
     CANCEL_WAIT |-> 4, CANCELLING |-> 5, CLEANUP |-> 6, DONE |-> 7]

StmStates == DOMAIN StmOrd

\* PROTO_OP values that name a request
RequestOps == {"SCAN", "LOAD", "CHECK", "CANCEL", "CLEANUP"}

\* SANE_Status values a protocol reply may carry
ProtoStatuses == {"GOOD", "JAMMED"}

\* SANE_Frame values and their bytes per pixel
Formats == {"GRAY", "RGB"}

BytesPerPixel(format) == IF format = "GRAY" THEN 1 ELSE 3

Max2(a, b) == IF a > b THEN a ELSE b

Min2(a, b) == IF a < b THEN a ELSE b

----------------------------------------------------------------------------
(* struct device *)

\* the option state after devopt_init / devopt_set_defaults: a valid window
DefaultOpt ==
    [lines |-> 1, pixels_per_line |-> 1, format |-> "GRAY",
     tl_x |-> 0, tl_y |-> 0, br_x |-> 1, br_y |-> 1, resolution |-> 300]

\* devcaps of the scanner: the reference DPI and the window limits of the source
DevCaps ==
    [units |-> 300, min_wid_px |-> 1, max_wid_px |-> 2550,
     min_hei_px |-> 1, max_hei_px |-> 3508]

\* option states devopt_set_option may leave: the default one and an empty window
OptChoices == {DefaultOpt, [DefaultOpt EXCEPT !.lines = 0]}

\* no image: dev->read_image == NULL, result.data.image == NULL
NoImage ==
    [n |-> 0, wid |-> 0, hei |-> 0, format |-> "GRAY",
     mcu_x |-> 1, mcu_y |-> 1]

\* memory of a device that device_add has not created yet
NoDevice ==
    [mem |-> "absent", refcnt |-> 0, flags |-> {}, opt |-> DefaultOpt,
     stm_state |-> "CLOSED", stm_cond |-> {}, stm_cancel_event |-> "null",
     stm_timer |-> "null", timer_armed |-> FALSE, call_pending |-> FALSE,
     proto |-> "NONE", proto_op_current |-> "NONE", location |-> FALSE,
     failed_attempt |-> 0, http_pending |-> EmptyBag, onerror |-> FALSE,
     endpoints |-> <<>>, endpoint_current |-> 0, http_timer |-> "null",
     job_status |-> "GOOD", job_images_received |-> 0,
     job_skip_x |-> 0, job_skip_y |-> 0,
     read_non_blocking |-> FALSE, read_queue |-> <<>>, read_image |-> NoImage,
     read_line_num |-> 0, read_line_end |-> 0, read_line_off |-> 0,
     read_skip_lines |-> 0, read_skip_bytes |-> 0,
     cas_spurious |-> FALSE,
     failure |-> "none",
     h_stage |-> "none", h_cancel |-> "no", h_suppressed |-> FALSE,
     h_delivered |-> 0]

HasFlag(d, f) == f \in d.flags

\* the history of a cancel request: "early" if it came before any reply of
\* the job was processed, or after the reply to SCAN alone
CancelSeen(d) ==
    IF d.h_cancel # "no" \/ d.h_stage = "none" THEN d.h_cancel
    ELSE IF d.h_stage \in {"started", "scan_done"} THEN "early"
    ELSE "late"

\* the job is over: its history is forgotten
ForgetJob(d) ==
    [d EXCEPT !.h_stage = "none", !.h_cancel = "no"]

\* log_assert / log_internal_error: the process aborts
Abort(d, why) == [d EXCEPT !.failure = why]

\* what remains of the device after a step: nothing but the failure once the
\* process has aborted, nothing but the flags and the state it was freed with
\* and a pending timer once the device is freed,
\* and else the device without the values nothing will read: the line
\* position while no image is being read (device_read_next sets every field
\* of it first), the non-blocking mode outside a read cycle (device_start
\* sets it), the current operation while no request and no timer is pending
\* (device_proto_op_submit sets it), and the history of the job where it is
\* not kept and once the device has left the table
Settle(d) ==
    IF d.failure # "none" THEN [NoDevice EXCEPT !.failure = d.failure]
    ELSE IF d.mem = "freed"
       THEN [NoDevice EXCEPT !.mem = "freed", !.flags = d.flags,
                             !.stm_state = d.stm_state,
                             !.timer_armed = d.timer_armed]
    ELSE LET d1 == IF d.read_image = NoImage
                      THEN [d EXCEPT !.read_line_num = 0, !.read_line_end = 0,
                                     !.read_line_off = 0,
                                     !.read_skip_lines = 0,
                                     !.read_skip_bytes = 0, !.h_delivered = 0]
                      ELSE d
             d2 == IF HasFlag(d1, "READING") THEN d1
                   ELSE [d1 EXCEPT !.read_non_blocking = FALSE]
             d3 == IF d2.http_pending = EmptyBag /\ ~d2.timer_armed
                      THEN [d2 EXCEPT !.proto_op_current = "NONE",
                                      !.cas_spurious = FALSE]
                      ELSE [d2 EXCEPT !.cas_spurious = FALSE]
         IN IF history /\ HasFlag(d3, "LISTED") THEN d3
            ELSE [d3 EXCEPT !.h_stage = "none", !.h_cancel = "no",
                            !.h_suppressed = FALSE]

\* the step leaves the device d
Becomes(d) ==
    \E n \in {d} : dev' = Settle(n) /\ history' = history /\ geom' = geom

\* g_cond_broadcast(&dev->stm_cond): every waiter becomes runnable
g_cond_broadcast(d) == [d EXCEPT !.stm_cond = {}]

----------------------------------------------------------------------------
(* Reference counting and the device table *)

\* http_client_cancel(dev->proto_ctx.http), then the retry timer, if any.
\* Cancelled queries get no callback.  Nothing ever stores a timer in
\* http_timer, and stm_timer (the delay timer) is not touched here.
device_http_cancel(d) ==
    LET d1 == [d EXCEPT !.http_pending = EmptyBag]
    IN IF d1.http_timer # "null"
          THEN [d1 EXCEPT !.http_timer = "null"]
          ELSE d1

\* device_unref: the last reference frees the device, after three assertions
device_unref(d) ==
    LET d1 == [d EXCEPT !.refcnt = @ - 1]
    IN IF d1.refcnt # 0 THEN d1
       ELSE IF HasFlag(d1, "LISTED") THEN Abort(d1, "assert_unref_listed")
       ELSE IF ~HasFlag(d1, "HALTED") THEN Abort(d1, "assert_unref_halted")
       ELSE IF d1.stm_state # "CLOSED" THEN Abort(d1, "assert_unref_closed")
       ELSE [d1 EXCEPT !.mem = "freed", !.proto = "NONE",
                       !.http_pending = EmptyBag, !.location = FALSE,
                       !.read_queue = <<>>]

\* device_del: out of the table, pending I/O cancelled, HALTED, unref
device_del(d) ==
    IF ~HasFlag(d, "LISTED") THEN Abort(d, "assert_del_listed")
    ELSE LET d1 == [d EXCEPT !.flags = @ \ {"LISTED"}]
             d2 == device_http_cancel(d1)
             d3 == [d2 EXCEPT !.flags = (@ \cup {"HALTED"}) \ {"READY"}]
         IN device_unref(d3)

\* device_find / device_table_collect: only a LISTED device is in the table
device_find(d) == d.mem = "alive" /\ HasFlag(d, "LISTED")

----------------------------------------------------------------------------
(* Protocol operations *)

\* device_proto_set: unbind the current handler, bind the one of proto
device_proto_set(d, proto) == [d EXCEPT !.proto = proto]

\* device_proto_devcaps_submit: the capabilities query goes out
device_proto_devcaps_submit(d) ==
    [d EXCEPT !.http_pending = @ (+) SetToBag({"CAPS"})]

\* device_proto_op_submit: the request of op goes out and op becomes current
device_proto_op_submit(d, op) ==
    IF op \notin RequestOps THEN Abort(d, "internal_error_submit")
    ELSE [d EXCEPT !.proto_op_current = op,
                   !.http_pending = @ (+) SetToBag({op})]

\* a proto_result
Result(next, delay, status, location, image) ==
    [next |-> next, delay |-> delay, status |-> status,
     location |-> location, image |-> image]

\* device_proto_dummy_decode: the reply of CANCEL and CLEANUP
device_proto_dummy_decode == Result("FINISH", 0, "GOOD", FALSE, NoImage)

\* the images a scanner may answer a LOAD with: the n-th image of the job,
\* one line of one gray pixel
LoadedImages(n) ==
    {[n |-> n, wid |-> 1, hei |-> 1, format |-> "GRAY",
      mcu_x |-> 1, mcu_y |-> 1]}

\* scan_decode, load_decode and status_decode of the protocol handler: what a
\* reply may decode to.  Progress (a job URI from SCAN, an image from LOAD),
\* the end of the job, or a delayed retry (of the operation, or a CHECK of
\* the scanner's status) while the retry budget lasts.
HandlerResults(d, op) ==
    LET progress ==
            IF op = "SCAN"
               THEN {Result("LOAD", 0, "GOOD", TRUE, NoImage)}
            ELSE IF op = "LOAD" /\ d.job_images_received < MaxImages
               THEN {Result(nx, 0, "GOOD", FALSE, img) :
                        nx \in {"LOAD", "CLEANUP"},
                        img \in LoadedImages(d.job_images_received + 1)}
            ELSE {}
        ending ==
            {Result(nx, 0, st, FALSE, NoImage) :
                nx \in {"FINISH"} \cup
                       (IF d.location THEN {"CANCEL", "CLEANUP"} ELSE {}),
                st \in ProtoStatuses}
        retry ==
            IF d.failed_attempt < DEVICE_HTTP_RETRY_ATTEMPTS
               THEN {Result(nx, DEVICE_HTTP_RETRY_PAUSE, "GOOD", FALSE, NoImage) :
                        nx \in {"CHECK"} \cup
                               (IF d.location THEN {"LOAD"} ELSE {"SCAN"})}
               ELSE {}
    IN progress \cup ending \cup retry

\* device_proto_op_decode: the decoder of the current operation
device_proto_op_decode(d, op) ==
    IF op \in {"CANCEL", "CLEANUP"} THEN {device_proto_dummy_decode}
    ELSE IF op \in {"SCAN", "LOAD", "CHECK"} THEN HandlerResults(d, op)
    ELSE {}

----------------------------------------------------------------------------
(* Scan job management *)

\* the mutant of device_job_set_status: a suppressed error purges the queue
device_job_set_status_purge(d, status) ==
    IF status = "GOOD" THEN d
    ELSE IF status # "CANCELLED" /\ d.job_images_received > 0
       THEN [d EXCEPT !.h_suppressed = TRUE, !.read_queue = <<>>]
    ELSE IF status # "CANCELLED" /\ d.job_status # "GOOD" THEN d
    ELSE IF status # d.job_status
       THEN [d EXCEPT !.job_status = status,
                      !.read_queue =
                          IF status = "CANCELLED" THEN <<>> ELSE @,
                      !.h_suppressed =
                          IF status = "CANCELLED" THEN FALSE ELSE @]
    ELSE d

\* device_job_set_status
device_job_set_status(d, status) ==
    IF status = "GOOD" THEN d
    ELSE IF status # "CANCELLED" /\ d.job_images_received > 0
       THEN [d EXCEPT !.h_suppressed = TRUE]
    ELSE IF status # "CANCELLED" /\ d.job_status # "GOOD" THEN d
    ELSE IF status # d.job_status
       THEN [d EXCEPT !.job_status = status,
                      !.read_queue =
                          IF status = "CANCELLED" THEN <<>> ELSE @,
                      !.h_suppressed =
                          IF status = "CANCELLED" THEN FALSE ELSE @]
    ELSE d

----------------------------------------------------------------------------
(* Scan state machinery *)

\* device_stm_state_get
device_stm_state_get(d) == d.stm_state

\* device_stm_state_working: strictly between IDLE and DONE
device_stm_state_working(d) ==
    /\ StmOrd[device_stm_state_get(d)] > StmOrd["IDLE"]
    /\ StmOrd[device_stm_state_get(d)] < StmOrd["DONE"]

\* device_stm_state_set: store, then broadcast stm_cond
device_stm_state_set(d, state) ==
    IF d.stm_state # state
       THEN g_cond_broadcast([d EXCEPT !.stm_state = state])
       ELSE d

\* device_stm_cancel_perform: [ok, dev]
device_stm_cancel_perform(d) ==
    IF d.location
       THEN LET d1 == device_http_cancel(d)
                d2 == device_stm_state_set(d1, "CANCELLING")
                d3 == device_proto_op_submit(d2, "CANCEL")
                d4 == device_job_set_status(d3, "CANCELLED")
            IN [ok |-> TRUE, dev |-> d4]
       ELSE [ok |-> FALSE, dev |-> d]

\* device_stm_cancel_event_callback
device_stm_cancel_event_callback(d) ==
    LET r == device_stm_cancel_perform(d)
    IN IF ~r.ok
          THEN device_stm_state_set(r.dev, "CANCEL_WAIT")
          ELSE r.dev

\* the mutant of device_stm_cancel_req: a plain store instead of the
\* compare-and-set
device_stm_cancel_req_store(d) ==
    [d EXCEPT !.stm_state = "CANCEL_REQ", !.stm_cancel_event = "triggered"]

\* device_stm_cancel_req: compare-and-set SCANNING -> CANCEL_REQ; the event
\* is triggered if it succeeded.  No broadcast.  The compare-exchange is the
\* weak one (its fourth argument is true): it may fail although the state is
\* SCANNING, which cas_spurious says of this call.
device_stm_cancel_req(d) ==
    IF d.stm_state = "SCANNING" /\ ~d.cas_spurious
       THEN [d EXCEPT !.stm_state = "CANCEL_REQ",
                      !.stm_cancel_event = "triggered"]
       ELSE d

\* device_stm_timer_callback: re-submit the current operation.  The timer
\* has fired; dev->stm_timer keeps pointing at it.
device_stm_timer_callback(d) ==
    device_proto_op_submit(d, d.proto_op_current)

\* device_http_onerror
device_http_onerror(d) ==
    LET d1 == device_job_set_status(d, "IO_ERROR")
        r  == device_stm_cancel_perform(d1)
    IN IF ~r.ok
          THEN device_stm_state_set(r.dev, "DONE")
          ELSE r.dev

\* the mutant of device_stm_op_callback: a job that ends without an image
\* keeps its status
device_stm_op_callback_no_default(d, result) ==
    LET d1 == IF d.proto_op_current = "SCAN" /\ result.location
                 THEN g_cond_broadcast(
                         [d EXCEPT !.location = TRUE, !.failed_attempt = 0])
              ELSE IF d.proto_op_current = "LOAD" /\ result.image # NoImage
                 THEN g_cond_broadcast(
                         [d EXCEPT !.read_queue = Append(@, result.image),
                                   !.job_images_received = @ + 1,
                                   !.failed_attempt = 0])
              ELSE d
        d2 == device_job_set_status(d1, result.status)
    IN IF result.next = "FINISH"
          THEN device_stm_state_set(d2, "DONE")
       ELSE IF device_stm_state_get(d2) = "CANCEL_WAIT"
          THEN LET r == device_stm_cancel_perform(d2)
               IN IF ~r.ok
                     THEN device_stm_state_set(r.dev, "DONE")
                     ELSE r.dev
       ELSE LET d3 == IF result.next = "CANCEL"
                         THEN device_stm_state_set(d2, "CANCELLING")
                      ELSE IF result.next = "CLEANUP"
                         THEN device_stm_state_set(d2, "CLEANUP")
                      ELSE d2
            IN IF result.delay # 0
                  THEN IF d3.stm_timer # "null"
                          THEN Abort(d3, "assert_stm_timer")
                          ELSE [d3 EXCEPT !.stm_timer = "set",
                                          !.timer_armed = TRUE,
                                          !.proto_op_current = result.next]
                  ELSE device_proto_op_submit(d3, result.next)

\* device_stm_op_callback, given the decoded result
device_stm_op_callback(d, result) ==
    LET d1 == IF d.proto_op_current = "SCAN" /\ result.location
                 THEN g_cond_broadcast(
                         [d EXCEPT !.location = TRUE, !.failed_attempt = 0])
              ELSE IF d.proto_op_current = "LOAD" /\ result.image # NoImage
                 THEN g_cond_broadcast(
                         [d EXCEPT !.read_queue = Append(@, result.image),
                                   !.job_images_received = @ + 1,
                                   !.failed_attempt = 0])
              ELSE d
        d2 == device_job_set_status(d1, result.status)
    IN IF result.next = "FINISH"
          THEN LET d3 == IF d2.job_images_received = 0
                            THEN device_job_set_status(d2, "IO_ERROR")
                            ELSE d2
               IN device_stm_state_set(d3, "DONE")
       ELSE IF device_stm_state_get(d2) = "CANCEL_WAIT"
          THEN LET r == device_stm_cancel_perform(d2)
               IN IF ~r.ok
                     THEN device_stm_state_set(r.dev, "DONE")
                     ELSE r.dev
       ELSE LET d3 == IF result.next = "CANCEL"
                         THEN device_stm_state_set(d2, "CANCELLING")
                      ELSE IF result.next = "CLEANUP"
                         THEN device_stm_state_set(d2, "CLEANUP")
                      ELSE d2
            IN IF result.delay # 0
                  THEN IF d3.stm_timer # "null"
                          THEN Abort(d3, "assert_stm_timer")
                          ELSE [d3 EXCEPT !.stm_timer = "set",
                                          !.timer_armed = TRUE,
                                          !.proto_op_current = result.next]
                  ELSE device_proto_op_submit(d3, result.next)

----------------------------------------------------------------------------
(* Geometry *)

\* math_mm2px_res: millimetres to pixels at a resolution, rounded to nearest
math_mm2px_res(mm, res) == (mm * res * 10 + 127) \div 254

\* math_bound
math_bound(x, lo, hi) == IF x < lo THEN lo ELSE IF x > hi THEN hi ELSE x

\* math_muldiv: a * b / c
math_muldiv(a, b, c) == (a * b) \div c

\* no device_geom computed yet, for no arguments
NoGeom ==
    [tl |-> 0, br |-> 0, minlen |-> 0, maxlen |-> 0, res |-> 0, units |-> 0,
     calls |-> 0, off |-> 0, len |-> 0, skip |-> 0]

\* the mutant of device_geom_compute: the window is not moved back into the
\* device's range
device_geom_compute_unclipped(tl, br, minlen, maxlen, res, units) ==
    LET off  == math_mm2px_res(tl, units)
        len0 == math_mm2px_res(br - tl, units)
        min1 == Max2(minlen, 1)
        len  == math_bound(len0, min1, maxlen)
    IN [off |-> off, len |-> len, skip |-> 0]

\* device_geom_compute
device_geom_compute(tl, br, minlen, maxlen, res, units) ==
    LET off  == math_mm2px_res(tl, units)
        len0 == math_mm2px_res(br - tl, units)
        min1 == Max2(minlen, 1)
        len  == math_bound(len0, min1, maxlen)
    IN IF off + len > maxlen
          THEN [off  |-> off - (off + len - maxlen),
                len  |-> len,
                skip |-> math_muldiv(off + len - maxlen, res, units)]
          ELSE [off |-> off, len |-> len, skip |-> 0]

\* device_stm_start_scan: window parameters, state SCANNING, SCAN goes out
device_stm_start_scan(d) ==
    LET geom_x == device_geom_compute(d.opt.tl_x, d.opt.br_x,
                      DevCaps.min_wid_px, DevCaps.max_wid_px,
                      d.opt.resolution, DevCaps.units)
        geom_y == device_geom_compute(d.opt.tl_y, d.opt.br_y,
                      DevCaps.min_hei_px, DevCaps.max_hei_px,
                      d.opt.resolution, DevCaps.units)
        d1 == [d EXCEPT !.job_skip_x = geom_x.skip, !.job_skip_y = geom_y.skip]
        d2 == device_stm_state_set(d1, "SCANNING")
    IN device_proto_op_submit(d2, "SCAN")

----------------------------------------------------------------------------
(* Read machinery *)

\* opt.params.bytes_per_line
bytes_per_line(d) == d.opt.pixels_per_line * BytesPerPixel(d.opt.format)

\* image_decoder_set_window: the decoder may move the window's corner up and
\* left to a boundary of its blocks
image_decoder_set_window(img, x_off, y_off) ==
    [x_off |-> x_off - (x_off % img.mcu_x),
     y_off |-> y_off - (y_off % img.mcu_y)]

\* what the decoder makes of the image data it is given next: they are good,
\* image_decoder_begin rejects them, or image_decoder_read_line does
DecoderVerdicts == {"ok", "bad", "trunc"}

\* image_decoder_read_line fails on damaged data and past the last line of
\* the window
image_decoder_read_line_fails(d, dec) ==
    \/ dec = "trunc"
    \/ d.read_line_num - d.read_skip_lines >=
          d.read_image.hei - (d.job_skip_y - d.read_skip_lines)

\* device_read_next: [status, dev]
device_read_next(d, dec) ==
    IF d.read_queue = <<>>
       THEN [status |-> "EOF", dev |-> d]
       ELSE
         LET img  == Head(d.read_queue)
             d1   == [d EXCEPT !.read_image = img, !.read_queue = Tail(@)]
             fail == [status |-> "IO_ERROR",
                      dev |-> [d1 EXCEPT !.read_image = NoImage]]
             bpp  == BytesPerPixel(img.format)
             win  == image_decoder_set_window(img, d.job_skip_x, d.job_skip_y)
             d2   == IF d.job_skip_x >= img.wid \/ d.job_skip_y >= img.hei
                        THEN [d1 EXCEPT !.read_skip_lines = img.hei,
                                        !.read_skip_bytes = 0]
                        ELSE [d1 EXCEPT
                                !.read_skip_bytes =
                                    IF win.x_off # d.job_skip_x
                                       THEN bpp * (d.job_skip_x - win.x_off)
                                       ELSE 0,
                                !.read_skip_lines =
                                    IF win.y_off # d.job_skip_y
                                       THEN d.job_skip_y - win.y_off
                                       ELSE 0]
             d3   == [d2 EXCEPT !.read_line_num = 0,
                                !.read_line_off = bytes_per_line(d),
                                !.read_line_end = img.hei - d2.read_skip_lines,
                                !.h_delivered = 0]
         IN IF dec = "bad" THEN fail
            ELSE IF img.format # d.opt.format THEN fail
            ELSE [status |-> "GOOD", dev |-> d3]

\* device_read_decode_line: [status, dev]
device_read_decode_line(d, dec) ==
    LET n == d.read_line_num
        next == [d EXCEPT !.read_line_off = d.read_skip_bytes,
                          !.read_line_num = @ + 1]
    IN IF n = d.opt.lines
          THEN [status |-> "EOF", dev |-> d]
       ELSE IF n < d.read_skip_lines \/ n >= d.read_line_end
          THEN [status |-> "GOOD", dev |-> next]
       ELSE IF image_decoder_read_line_fails(d, dec)
          THEN [status |-> "IO_ERROR", dev |-> d]
       ELSE [status |-> "GOOD", dev |-> next]

\* the copy loop of device_read: [status, len, dev]
RECURSIVE device_read_lines(_, _, _, _)
device_read_lines(d, len, max_len, dec) ==
    IF len >= max_len
       THEN [status |-> "GOOD", len |-> len, dev |-> d]
    ELSE IF d.read_line_off = bytes_per_line(d)
       THEN LET r == device_read_decode_line(d, dec)
            IN IF r.status = "GOOD"
                  THEN device_read_lines(r.dev, len, max_len, dec)
                  ELSE [status |-> r.status, len |-> len, dev |-> r.dev]
    ELSE LET sz == Min2(max_len - len, bytes_per_line(d) - d.read_line_off)
         IN IF sz < 0
               THEN [status |-> "GOOD", len |-> len,
                     dev |-> Abort(d, "memcpy_negative_size")]
               ELSE device_read_lines(
                        [d EXCEPT !.read_line_off = @ + sz], len + sz, max_len,
                        dec)

\* device_cancel
device_cancel(d) == device_stm_cancel_req(d)

\* device_read from the end of its wait loop: [status, len, dev]
device_read_body(d, max_len, dec) ==
    LET \* up to the line loop: the status so far and the device
        pre ==
            IF d.read_image # NoImage
               THEN [status |-> "GOOD", dev |-> d]
            ELSE IF d.job_status = "CANCELLED"
               THEN [status |-> "CANCELLED", dev |-> d]
            ELSE IF d.read_queue = <<>>
               THEN [status |-> d.job_status,
                     dev |-> IF d.job_status = "GOOD"
                                THEN Abort(d, "assert_read_status")
                                ELSE d]
            ELSE device_read_next(d, dec)
        lines ==
            IF pre.status = "GOOD" /\ pre.dev.failure = "none"
               THEN device_read_lines(pre.dev, 0, max_len, dec)
               ELSE [status |-> pre.status, len |-> 0, dev |-> pre.dev]
        err == IF pre.status = "GOOD" /\ lines.status = "IO_ERROR"
                  THEN device_cancel(
                          device_job_set_status(lines.dev, "IO_ERROR"))
                  ELSE lines.dev
        status == IF lines.status = "EOF" /\ lines.len > 0
                     THEN "GOOD"
                     ELSE lines.status
    IN IF err.failure # "none"
          THEN [status |-> "none", len |-> 0, dev |-> err]
       ELSE IF status = "GOOD"
          THEN [status |-> "GOOD", len |-> lines.len,
                dev |-> [err EXCEPT !.h_delivered = @ + lines.len]]
          ELSE LET c1 == [err EXCEPT
                            !.flags = @ \ {"SCANNING", "READING"},
                            !.read_image = NoImage,
                            !.h_suppressed = @ /\ status = "EOF"]
                   c2 == IF device_stm_state_get(c1) = "DONE"
                            /\ Len(c1.read_queue) = 0
                            THEN ForgetJob(device_stm_state_set(c1, "IDLE"))
                            ELSE c1
               IN [status |-> status, len |-> 0, dev |-> c2]

----------------------------------------------------------------------------
(* Protocol initialization *)

Protos == {"ESCL", "WSD"}

\* the endpoint lists discovery may report: 1..MaxEndpoints protocols
EndpointLists ==
    UNION {[1..n -> [proto : Protos]] : n \in 1..MaxEndpoints}

\* the mutant of device_probe_endpoint: the handler bound for the first
\* endpoint is kept for the later ones
device_probe_endpoint_keep_proto(d, i) ==
    LET d1 == IF d.endpoint_current = 0
                 THEN device_proto_set(d, d.endpoints[i].proto)
                 ELSE d
    IN device_proto_devcaps_submit([d1 EXCEPT !.endpoint_current = i])

\* device_probe_endpoint: bind the handler if the protocol changes, query
\* the capabilities of endpoint number i
device_probe_endpoint(d, i) ==
    LET d1 == IF d.endpoint_current = 0
                 \/ d.endpoints[d.endpoint_current].proto # d.endpoints[i].proto
                 THEN device_proto_set(d, d.endpoints[i].proto)
                 ELSE d
    IN device_proto_devcaps_submit([d1 EXCEPT !.endpoint_current = i])

\* device_add: nothing if the name is in the table, else a new device whose
\* first endpoint is probed
device_add(d, endpoints) ==
    IF device_find(d) THEN d
    ELSE device_probe_endpoint(
            [NoDevice EXCEPT !.mem = "alive", !.refcnt = 1,
                             !.flags = {"LISTED", "INIT_WAIT"},
                             !.endpoints = endpoints], 1)

\* device_statically_configured
device_statically_configured(d, proto) ==
    device_add(d, <<[proto |-> proto]>>)

\* the mutant of device_scanner_capabilities_callback: INIT_WAIT is left set
\* when the device becomes READY
device_scanner_capabilities_callback_keep_wait(d, ok) ==
    IF ~ok
       THEN IF d.endpoint_current # 0 /\ d.endpoint_current < Len(d.endpoints)
               THEN device_probe_endpoint(d, d.endpoint_current + 1)
               ELSE device_del(d)
       ELSE [d EXCEPT !.flags = @ \cup {"READY"},
                      !.opt = DefaultOpt, !.onerror = TRUE]

\* device_scanner_capabilities_callback; ok: the query and the parse succeeded
device_scanner_capabilities_callback(d, ok) ==
    IF ~ok
       THEN IF d.endpoint_current # 0 /\ d.endpoint_current < Len(d.endpoints)
               THEN device_probe_endpoint(d, d.endpoint_current + 1)
               ELSE device_del(d)
       ELSE [d EXCEPT !.flags = (@ \cup {"READY"}) \ {"INIT_WAIT"},
                      !.opt = DefaultOpt, !.onerror = TRUE]

----------------------------------------------------------------------------
(* Frontend API.  A call is an operator from the device to [dev, pc, status,
   len]: the device it leaves, where the caller is then ("idle": the call has
   returned; otherwise the eloop_cond_wait it blocks in, status "none") and
   what it returns. *)

\* device_ref
device_ref(d) == [d EXCEPT !.refcnt = @ + 1]

\* eloop_cond_wait(&dev->stm_cond): the frontend thread becomes a waiter
eloop_cond_wait(d) == [d EXCEPT !.stm_cond = @ \cup {"fe"}]

Returns(d, status, len) ==
    [dev |-> d, pc |-> "idle", status |-> status, len |-> len]

Blocks(d, pc) ==
    [dev |-> eloop_cond_wait(d), pc |-> pc, status |-> "none", len |-> 0]

\* the mutant of device_open: the state of the device is not looked at
device_open_any_state(d) ==
    IF ~device_find(d) \/ ~HasFlag(d, "READY")
       THEN Returns(d, "INVAL", 0)
    ELSE Returns(device_ref(device_stm_state_set(
                    [d EXCEPT !.stm_cancel_event = "idle"], "IDLE")),
                 "GOOD", 0)

\* device_open
device_open(d) ==
    IF ~device_find(d) \/ ~HasFlag(d, "READY")
       THEN Returns(d, "INVAL", 0)
    ELSE IF device_stm_state_get(d) # "CLOSED"
       THEN Returns(d, "DEVICE_BUSY", 0)
    ELSE Returns(device_ref(device_stm_state_set(
                    [d EXCEPT !.stm_cancel_event = "idle"], "IDLE")),
                 "GOOD", 0)

\* the mutant of device_close_finish: the reference is dropped before the
\* state machine is CLOSED
device_close_finish_unref_first(d) ==
    device_stm_state_set(
        device_unref(ForgetJob([d EXCEPT !.stm_cancel_event = "null",
                                         !.h_suppressed = FALSE])), "CLOSED")

\* device_close, once the state machine does not work
device_close_finish(d) ==
    device_unref(device_stm_state_set(
        ForgetJob([d EXCEPT !.stm_cancel_event = "null",
                            !.h_suppressed = FALSE]), "CLOSED"))

\* device_stm_wait_while_working and the rest of device_close
device_stm_wait_while_working(d) ==
    IF device_stm_state_working(d)
       THEN Blocks(d, "close_wait")
       ELSE Returns(device_close_finish(d), "GOOD", 0)

\* device_close
device_close(d) ==
    IF device_stm_state_get(d) = "CLOSED"
       THEN Returns(d, "GOOD", 0)
    ELSE IF device_stm_state_working(d)
       THEN device_stm_wait_while_working(
               device_stm_cancel_req(
                  [d EXCEPT !.h_cancel = CancelSeen(d)]))
    ELSE device_stm_wait_while_working(d)

\* device_start: the new job
device_start_new_job(d) ==
    LET d1 == device_stm_state_set(d, "IDLE")
    IN [d1 EXCEPT !.job_status = "GOOD", !.location = FALSE,
                  !.failed_attempt = 0, !.job_images_received = 0,
                  !.call_pending = TRUE,
                  !.h_stage = "started", !.h_cancel = "no",
                  !.h_suppressed = FALSE]

\* device_start from its second wait loop on
device_start_wait_idle(d) ==
    IF device_stm_state_get(d) = "IDLE"
       THEN Blocks(d, "start_wait")
       ELSE Returns([d EXCEPT !.flags = @ \cup {"READING"}], "GOOD", 0)

\* the mutant of device_start_sync: the images left in the queue are not
\* looked at
device_start_sync_new_job(d) ==
    IF device_stm_state_working(d)
       THEN Blocks(d, "start_sync")
       ELSE device_start_wait_idle(device_start_new_job(d))

\* device_start from its first wait loop on
device_start_sync(d) ==
    IF device_stm_state_working(d) /\ Len(d.read_queue) = 0
       THEN Blocks(d, "start_sync")
    ELSE IF Len(d.read_queue) > 0
       THEN Returns([d EXCEPT !.flags = @ \cup {"READING"}], "GOOD", 0)
    ELSE device_start_wait_idle(device_start_new_job(d))

\* the mutant of device_start: the SCANNING flag is not looked at
device_start_again(d) ==
    IF d.opt.lines = 0 \/ d.opt.pixels_per_line = 0
       THEN Returns(d, "INVAL", 0)
    ELSE device_start_sync([d EXCEPT !.flags = @ \cup {"SCANNING"},
                                     !.read_non_blocking = FALSE])

\* device_start
device_start(d) ==
    IF HasFlag(d, "SCANNING")
       THEN Returns(d, "INVAL", 0)
    ELSE IF d.opt.lines = 0 \/ d.opt.pixels_per_line = 0
       THEN Returns(d, "INVAL", 0)
    ELSE device_start_sync([d EXCEPT !.flags = @ \cup {"SCANNING"},
                                     !.read_non_blocking = FALSE])

\* device_set_io_mode
device_set_io_mode(d, non_blocking) ==
    IF ~HasFlag(d, "SCANNING")
       THEN Returns(d, "INVAL", 0)
       ELSE Returns([d EXCEPT !.read_non_blocking = non_blocking], "GOOD", 0)

\* device_set_option; o: the option state devopt_set_option leaves
device_set_option(d, o) ==
    IF HasFlag(d, "SCANNING")
       THEN Returns(d, "INVAL", 0)
       ELSE Returns([d EXCEPT !.opt = o], "GOOD", 0)

\* the mutant of device_read_wait: the non-blocking mode is not looked at
device_read_wait_blocking(d, max_len, dec) ==
    IF /\ d.read_image = NoImage
       /\ device_stm_state_working(d)
       /\ d.read_queue = <<>>
       THEN Blocks(d, "read_wait")
       ELSE LET r == device_read_body(d, max_len, dec)
            IN Returns(r.dev, r.status, r.len)

\* device_read from its wait loop on
device_read_wait(d, max_len, dec) ==
    IF /\ d.read_image = NoImage
       /\ device_stm_state_working(d)
       /\ d.read_queue = <<>>
       THEN IF d.read_non_blocking
               THEN Returns(d, "GOOD", 0)
               ELSE Blocks(d, "read_wait")
       ELSE LET r == device_read_body(d, max_len, dec)
            IN Returns(r.dev, r.status, r.len)

\* device_read
device_read(d, max_len, dec) ==
    IF ~HasFlag(d, "READING")
       THEN Returns(d, "INVAL", 0)
       ELSE device_read_wait(d, max_len, dec)

----------------------------------------------------------------------------
(* Initial state: no device, no handle *)

Init ==
    /\ dev = NoDevice
    /\ fe_pc = "idle"
    /\ fe_handle = FALSE
    /\ history = FALSE
    /\ geom = NoGeom

----------------------------------------------------------------------------
(* Discovery and the event loop thread *)

\* device_statically_configured: a device of the configuration file has one
\* endpoint
DeviceConfigured ==
    /\ dev.failure = "none"
    /\ dev.mem = "absent" \/ device_find(dev)
    /\ Becomes(device_statically_configured(dev, "ESCL"))
    /\ UNCHANGED <<fe_pc, fe_handle>>

\* device_event_found: discovery reports a device and its endpoints
DeviceFound ==
    /\ dev.failure = "none"
    /\ dev.mem = "absent" \/ device_find(dev)
    /\ \E eps \in EndpointLists : Becomes(device_add(dev, eps))
    /\ UNCHANGED <<fe_pc, fe_handle>>

\* device_event_removed, device_management_stop -> device_table_purge
DeviceRemoved ==
    /\ dev.failure = "none"
    /\ device_find(dev)
    /\ Becomes(device_del(dev))
    /\ UNCHANGED <<fe_pc, fe_handle>>

\* the capabilities query completes
CapsReply ==
    /\ dev.failure = "none"
    /\ BagIn("CAPS", dev.http_pending)
    /\ \E ok \in BOOLEAN :
          Becomes(device_scanner_capabilities_callback(
                    [dev EXCEPT !.http_pending = @ (-) SetToBag({"CAPS"})], ok))
    /\ UNCHANGED <<fe_pc, fe_handle>>

\* a request of the state machine completes: decode, device_stm_op_callback
OpReply ==
    /\ dev.failure = "none"
    /\ \E q \in BagToSet(dev.http_pending) \ {"CAPS"} :
          IF device_proto_op_decode(dev, dev.proto_op_current) = {}
             THEN Becomes(Abort(dev, "internal_error_decode"))
             ELSE \E r \in device_proto_op_decode(dev, dev.proto_op_current) :
                    Becomes(device_stm_op_callback(
                       [dev EXCEPT
                          !.http_pending = @ (-) SetToBag({q}),
                          !.failed_attempt =
                              IF r.delay # 0 THEN @ + 1 ELSE @,
                          !.h_stage =
                              IF @ = "none" THEN "none"
                              ELSE IF @ = "started" /\ r.location
                                 THEN "scan_done" ELSE "later"], r))
    /\ UNCHANGED <<fe_pc, fe_handle>>

\* a request fails in the HTTP client: device_http_onerror
HttpError ==
    /\ dev.failure = "none"
    /\ dev.onerror
    /\ \E q \in BagToSet(dev.http_pending) \ {"CAPS"} :
          Becomes(device_http_onerror(
                 [dev EXCEPT !.http_pending = @ (-) SetToBag({q}),
                             !.h_stage = IF @ = "none" THEN @ ELSE "later"]))
    /\ UNCHANGED <<fe_pc, fe_handle>>

\* the delay timer fires: device_stm_timer_callback
TimerFire ==
    /\ dev.failure = "none"
    /\ dev.timer_armed
    /\ IF dev.mem = "freed"
          THEN Becomes(Abort(dev, "use_after_free"))
          ELSE Becomes(device_stm_timer_callback(
                          [dev EXCEPT !.timer_armed = FALSE]))
    /\ UNCHANGED <<fe_pc, fe_handle>>

\* the cancel event is delivered: device_stm_cancel_event_callback
CancelEvent ==
    /\ dev.failure = "none"
    /\ dev.stm_cancel_event = "triggered"
    /\ Becomes(device_stm_cancel_event_callback(
                   [dev EXCEPT !.stm_cancel_event = "idle"]))
    /\ UNCHANGED <<fe_pc, fe_handle>>

\* eloop_call runs device_start_do
StartDo ==
    /\ dev.failure = "none"
    /\ dev.call_pending
    /\ Becomes(device_stm_start_scan([dev EXCEPT !.call_pending = FALSE]))
    /\ UNCHANGED <<fe_pc, fe_handle>>

----------------------------------------------------------------------------
(* The frontend thread *)

\* a frontend call may begin
FeCall == dev.failure = "none" /\ fe_pc = "idle"

\* the frontend thread, blocked at pc, has been woken
FeWoken(pc) == dev.failure = "none" /\ fe_pc = pc /\ "fe" \notin dev.stm_cond

\* the outcomes the weak compare-exchange of device_stm_cancel_req may have
\* in a call made now: a spurious failure shows only where it would succeed
CasSpurious == IF dev.stm_state = "SCANNING" THEN BOOLEAN ELSE {FALSE}

\* the call leaves the device r.dev and the caller at r.pc
FeStep(r) ==
    \E n \in {r} :
       /\ Becomes(n.dev)
       /\ fe_pc' = IF n.dev.failure # "none" THEN "idle" ELSE n.pc

Open ==
    /\ FeCall
    /\ FeStep(device_open(dev))
    /\ fe_handle' = (fe_handle \/ device_open(dev).status = "GOOD")

\* device_open when eloop_event_new returns NULL: NO_MEM, nothing changes
OpenNoMem ==
    /\ FeCall
    /\ device_find(dev) /\ HasFlag(dev, "READY")
    /\ device_stm_state_get(dev) = "CLOSED"
    /\ UNCHANGED vars

Close ==
    /\ FeCall
    /\ fe_handle
    /\ \E cas \in CasSpurious :
          LET d == [dev EXCEPT !.cas_spurious = cas]
          IN /\ FeStep(device_close(d))
             /\ fe_handle' = (device_close(d).pc # "idle")

CloseWake ==
    /\ FeWoken("close_wait")
    /\ FeStep(device_stm_wait_while_working(dev))
    /\ fe_handle' = (device_stm_wait_while_working(dev).pc # "idle")

Start ==
    /\ FeCall
    /\ fe_handle
    /\ FeStep(device_start(dev))
    /\ UNCHANGED fe_handle

StartSyncWake ==
    /\ FeWoken("start_sync")
    /\ FeStep(device_start_sync(dev))
    /\ UNCHANGED fe_handle

StartIdleWake ==
    /\ FeWoken("start_wait")
    /\ FeStep(device_start_wait_idle(dev))
    /\ UNCHANGED fe_handle

\* device_cancel: sane_cancel may come at any time while the handle is held
Cancel ==
    /\ dev.failure = "none"
    /\ fe_handle
    /\ \E cas \in CasSpurious :
          Becomes(device_cancel(
                     [dev EXCEPT !.h_cancel = CancelSeen(dev),
                                 !.cas_spurious = cas]))
    /\ UNCHANGED <<fe_pc, fe_handle>>

SetIoMode ==
    /\ FeCall
    /\ fe_handle
    /\ \E non_blocking \in BOOLEAN :
          FeStep(device_set_io_mode(dev, non_blocking))
    /\ UNCHANGED fe_handle

SetOption ==
    /\ FeCall
    /\ fe_handle
    /\ \E o \in OptChoices : FeStep(device_set_option(dev, o))
    /\ UNCHANGED fe_handle

Read ==
    /\ FeCall
    /\ fe_handle
    /\ \E max_len \in 1..MaxLen, dec \in DecoderVerdicts, cas \in CasSpurious :
          FeStep(device_read([dev EXCEPT !.cas_spurious = cas], max_len, dec))
    /\ UNCHANGED fe_handle

ReadWake ==
    /\ FeWoken("read_wait")
    /\ \E max_len \in 1..MaxLen, dec \in DecoderVerdicts, cas \in CasSpurious :
          FeStep(device_read_wait([dev EXCEPT !.cas_spurious = cas],
                                  max_len, dec))
    /\ UNCHANGED fe_handle

----------------------------------------------------------------------------
(* The specification: a device from its discovery to its removal, and a
   frontend that opens it, scans, reads, cancels and closes, with the
   options and the I/O mode the device was opened with *)

Next ==
    \/ DeviceConfigured
    \/ DeviceRemoved
    \/ CapsReply
    \/ OpReply
    \/ HttpError
    \/ TimerFire
    \/ CancelEvent
    \/ StartDo
    \/ Open
    \/ OpenNoMem
    \/ Close
    \/ CloseWake
    \/ Start
    \/ StartSyncWake
    \/ StartIdleWake
    \/ Cancel
    \/ Read
    \/ ReadWake

Spec == Init /\ [][Next]_vars

\* a device that stays in the table, and a frontend that also changes the
\* options and the I/O mode between its calls
OptionNext ==
    \/ DeviceConfigured
    \/ CapsReply
    \/ OpReply
    \/ HttpError
    \/ TimerFire
    \/ CancelEvent
    \/ StartDo
    \/ Open
    \/ Close
    \/ CloseWake
    \/ Start
    \/ StartSyncWake
    \/ StartIdleWake
    \/ Cancel
    \/ SetIoMode
    \/ SetOption
    \/ Read
    \/ ReadWake

OptionSpec == Init /\ [][OptionNext]_vars

\* discovery and probing of a device with several endpoints, with a frontend
\* that opens and closes it
ProbeNext ==
    \/ DeviceFound
    \/ DeviceConfigured
    \/ DeviceRemoved
    \/ CapsReply
    \/ Open
    \/ OpenNoMem
    \/ Close

ProbeSpec == Init /\ [][ProbeNext]_vars

\* the same, with every capabilities query completing: the HTTP client calls
\* device_scanner_capabilities_callback for each query it was given, with
\* the reply or with an error
ProbeFairSpec == Init /\ [][ProbeNext]_vars /\ WF_vars(CapsReply)

----------------------------------------------------------------------------
(* The scan jobs of a device that stays in the table and that the frontend
   keeps open, with their history:
   how far the job has come (h_stage), whether and when the frontend asked
   to cancel it (h_cancel), and whether device_job_set_status has dropped an
   error of it (h_suppressed). *)

JobInit ==
    /\ dev = NoDevice
    /\ fe_pc = "idle"
    /\ fe_handle = FALSE
    /\ history = TRUE
    /\ geom = NoGeom

JobNext ==
    \/ DeviceConfigured
    \/ CapsReply
    \/ OpReply
    \/ HttpError
    \/ TimerFire
    \/ CancelEvent
    \/ StartDo
    \/ Open
    \/ Start
    \/ StartSyncWake
    \/ StartIdleWake
    \/ Cancel
    \/ Read
    \/ ReadWake

JobSpec == JobInit /\ [][JobNext]_vars

----------------------------------------------------------------------------
(* The read pipeline on its own: a finished job has left one image in the
   queue and the caller reads it.  The promised parameters, the size of the
   image, the blocks of its decoder and the skip offsets of the job vary. *)

ReadImages ==
    [n : {1}, wid : 1..MaxDim, hei : 1..MaxDim, format : Formats,
     mcu_x : 1..MaxDim, mcu_y : 1..MaxDim]

ReadInit ==
    /\ \E lines \in 1..MaxDim, pixels_per_line \in 1..MaxDim,
          img \in ReadImages, skip_x \in 0..MaxDim, skip_y \in 0..MaxDim :
          dev = [NoDevice EXCEPT
                    !.mem = "alive", !.refcnt = 2,
                    !.flags = {"LISTED", "READY", "SCANNING", "READING"},
                    !.opt = [DefaultOpt EXCEPT
                                !.lines = lines,
                                !.pixels_per_line = pixels_per_line,
                                !.format = img.format],
                    !.stm_state = "DONE", !.stm_cancel_event = "idle",
                    !.proto = "ESCL", !.proto_op_current = "CLEANUP",
                    !.location = TRUE, !.onerror = TRUE,
                    !.endpoints = <<[proto |-> "ESCL"]>>,
                    !.endpoint_current = 1,
                    !.job_images_received = 1,
                    !.job_skip_x = skip_x, !.job_skip_y = skip_y,
                    !.read_queue = <<img>>,
                    !.h_stage = "later"]
    /\ fe_pc = "idle"
    /\ fe_handle = TRUE
    /\ history = FALSE
    /\ geom = NoGeom

ReadNext == Read

ReadSpec == ReadInit /\ [][ReadNext]_vars

----------------------------------------------------------------------------
(* device_geom_compute alone, over its well-formed arguments: a window in
   whole millimetres, the limits of the device in pixels at the reference
   resolution, and the resolutions *)

\* reference resolutions (devcaps::units) and scan resolutions, in DPI
GeomUnits == {100, 300}
GeomResolutions == {75, 300, 600}

\* minimal and maximal window sizes of a device, in pixels
GeomLimits == {0, 1, 5, 12, 30, 40}

GeomInit ==
    /\ dev = NoDevice
    /\ fe_pc = "idle"
    /\ fe_handle = FALSE
    /\ history = FALSE
    /\ \E tl \in 0..MaxMm, br \in 0..MaxMm,
          minlen \in GeomLimits, maxlen \in GeomLimits,
          res \in GeomResolutions, units \in GeomUnits :
          /\ tl <= br
          /\ minlen <= maxlen
          /\ maxlen >= 1
          /\ math_mm2px_res(tl, units) <= maxlen
          /\ geom = [NoGeom EXCEPT !.tl = tl, !.br = br,
                                   !.minlen = minlen, !.maxlen = maxlen,
                                   !.res = res, !.units = units]

\* device_geom_compute is called, a first and a second time
GeomCompute ==
    /\ geom.calls < 2
    /\ LET g == device_geom_compute(geom.tl, geom.br, geom.minlen,
                                    geom.maxlen, geom.res, geom.units)
       IN geom' = [geom EXCEPT !.calls = @ + 1, !.off = g.off,
                               !.len = g.len, !.skip = g.skip]
    /\ UNCHANGED <<dev, fe_pc, fe_handle, history>>

GeomNext == GeomCompute

GeomSpec == GeomInit /\ [][GeomNext]_vars

----------------------------------------------------------------------------
(* Properties *)

\* nothing is left for the event loop thread to run for the device: no request
\* in flight, no timer armed, no cancel event triggered, no eloop_call queued
Quiescent(d) ==
    /\ d.http_pending = EmptyBag
    /\ ~d.timer_armed
    /\ d.stm_cancel_event # "triggered"
    /\ ~d.call_pending

\* C1: a job whose cancel came before any reply was processed (or after the
\* reply to SCAN alone) ends DONE with status CANCELLED: once the event loop
\* has nothing left to run for it, that is where it is.  Stated for a device
\* that is still in the table, whose requests nothing but the job cancels.
C1_EarlyCancelEndsCancelled ==
    (HasFlag(dev, "LISTED") /\ dev.h_cancel = "early" /\ Quiescent(dev))
        => (dev.stm_state = "DONE" /\ dev.job_status = "CANCELLED")

\* C2: device_close returns: the caller is never blocked in it while the
\* machine is working and the event loop has nothing left to run (stated for
\* a device still in the table).
C2_CloseReturns ==
    ~ /\ HasFlag(dev, "LISTED")
      /\ fe_pc = "close_wait"
      /\ "fe" \in dev.stm_cond
      /\ device_stm_state_working(dev)
      /\ Quiescent(dev)

\* C3: once device_del has run (HALTED), no request is submitted: the
\* requests it cancelled stay the last ones, none is in flight.
C3_NoRequestAfterHalt ==
    HasFlag(dev, "HALTED") => dev.http_pending = EmptyBag

\* C4: in every interleaving of add, removal, capability-probe completion,
\* open and close the three assertions of device_unref never fail, a device is freed
\* only out of the table, HALTED, CLOSED and with no handle left, and a live
\* device holds one reference for the table and one for the handle.
C4_DestroyedOnlyWhenUnused ==
    /\ dev.failure \notin {"assert_unref_listed", "assert_unref_halted",
                           "assert_unref_closed"}
    /\ dev.mem = "freed" =>
          /\ ~HasFlag(dev, "LISTED")
          /\ HasFlag(dev, "HALTED")
          /\ dev.stm_state = "CLOSED"
          /\ ~fe_handle
    /\ dev.mem = "alive" =>
          dev.refcnt = (IF HasFlag(dev, "LISTED") THEN 1 ELSE 0)
                       + (IF fe_handle THEN 1 ELSE 0)
    /\ dev.mem = "alive" => dev.refcnt > 0

\* the last reference is gone and the device has been freed
C4_Destroyed ==
    dev.mem = "freed" /\ HasFlag(dev, "HALTED") /\ dev.stm_state = "CLOSED"
    /\ ~fe_handle /\ fe_pc = "idle"

\* an HTTP error step of a job the frontend has asked no cancel for, for a
\* device that is still in the table
ErrorInUncancelledJob ==
    /\ HttpError
    /\ HasFlag(dev, "LISTED")
    /\ dev.h_stage # "none"
    /\ dev.h_cancel = "no"

\* C5: a transport error in a job with images in the queue and no cancel
\* request leaves the queue as it is.
C5_ErrorKeepsQueuedImages ==
    [][(ErrorInUncancelledJob /\ dev.read_queue # <<>>)
          => dev'.read_queue = dev.read_queue]_vars

\* C6: no new job begins (for a device still in the table) while an error that
\* device_job_set_status suppressed has not been returned to the caller.
C6_SuppressedErrorReported ==
    [][(HasFlag(dev, "LISTED") /\ ~dev.call_pending /\ dev'.call_pending)
          => ~dev.h_suppressed]_vars

\* C7: a transport error in a job with no image received, no error pending
\* and no cancel request leaves the job status IO_ERROR.
C7_TransportErrorIsIoError ==
    [][(/\ ErrorInUncancelledJob
        /\ dev.job_images_received = 0
        /\ dev.job_status = "GOOD") => dev'.job_status = "IO_ERROR"]_vars

\* C8: when the last promised line of an image has been handed out in full,
\* the reads of that image have delivered lines * bytes_per_line bytes.
C8_ReadDeliversPromisedBytes ==
    (/\ dev.read_image # NoImage
     /\ dev.read_line_num = dev.opt.lines
     /\ dev.read_line_off = bytes_per_line(dev))
        => dev.h_delivered = dev.opt.lines * bytes_per_line(dev)

\* a read that finds READING set, non-blocking mode, no image being read and
\* an empty queue
ReadFindsNothing(d) ==
    /\ d.failure = "none"
    /\ d.mem = "alive"
    /\ HasFlag(d, "READING")
    /\ d.read_non_blocking
    /\ d.read_image = NoImage
    /\ d.read_queue = <<>>

StartFindsImage(d) ==
    /\ d.failure = "none"
    /\ d.mem = "alive"
    /\ d.read_queue # <<>>

\* start is accepted: not already scanning, and the window is not empty
StartAccepted(d) ==
    /\ ~HasFlag(d, "SCANNING")
    /\ d.opt.lines # 0
    /\ d.opt.pixels_per_line # 0

\* C10, as claimed: a start call that finds an image in the queue returns GOOD
\* with READING set and leaves the job and the state machine alone (stated
\* for a device still in the table).
C10_StartWithQueuedImage ==
    (/\ fe_pc = "idle" /\ fe_handle
     /\ StartFindsImage(dev) /\ HasFlag(dev, "LISTED")) =>
        LET r == device_start(dev)
        IN /\ r.pc = "idle" /\ r.status = "GOOD"
           /\ HasFlag(r.dev, "READING")
           /\ ~r.dev.call_pending
           /\ r.dev.stm_state = dev.stm_state

\* device_start, where the caller is: entered, or woken in one of its waits
StartResumed ==
    IF fe_pc = "idle" THEN device_start(dev)
    ELSE IF fe_pc = "start_sync" THEN device_start_sync(dev)
    ELSE device_start_wait_idle(dev)

\* C10, amended: an accepted start call that finds an image in the queue
\* returns GOOD at once and changes nothing but the flags SCANNING and READING
\* and the I/O mode; a start call that is not accepted returns INVAL and
\* changes nothing; and start begins a job (queues device_start_do, which
\* submits SCAN) only when the machine does not work and the queue is empty.
C10_AcceptedStartWithQueuedImage ==
    /\ (fe_pc = "idle" /\ fe_handle /\ StartFindsImage(dev)) =>
          LET r == device_start(dev)
          IN IF StartAccepted(dev)
                THEN /\ r.pc = "idle" /\ r.status = "GOOD"
                     /\ r.dev = [dev EXCEPT
                                    !.flags = @ \cup {"SCANNING", "READING"},
                                    !.read_non_blocking = FALSE]
                ELSE r.pc = "idle" /\ r.status = "INVAL" /\ r.dev = dev
    /\ (/\ fe_handle /\ dev.failure = "none" /\ dev.mem = "alive"
        /\ fe_pc \in {"idle", "start_sync", "start_wait"}
        /\ StartResumed.dev.call_pending /\ ~dev.call_pending) =>
          (~device_stm_state_working(dev) /\ dev.read_queue = <<>>)

\* C10, its case: an accepted start call finds an image in the queue and
\* returns GOOD with READING set
C10_StartTookQueuedImage ==
    /\ fe_pc = "idle" /\ fe_handle
    /\ StartFindsImage(dev)
    /\ StartAccepted(dev)
    /\ device_start(dev).status = "GOOD"
    /\ HasFlag(device_start(dev).dev, "READING")

----------------------------------------------------------------------------
(* C11: the queue of received images and the way out of DONE *)

\* the step takes the state machine from DONE to IDLE
DoneToIdle == dev.stm_state = "DONE" /\ dev'.stm_state = "IDLE"

\* the step ends a read cycle: device_read returns a terminal status
ReadCycleEnds == HasFlag(dev, "READING") /\ ~HasFlag(dev', "READING")

\* the step begins a job: device_start resets the job and waits for it to
\* leave IDLE
JobBegins == fe_pc # "start_wait" /\ fe_pc' = "start_wait"

\* the device exists before and after the step
DeviceStays ==
    dev.mem = "alive" /\ dev'.mem = "alive" /\ dev'.failure = "none"

\* C11, as claimed: the state machine leaves DONE for IDLE only in a read
\* that returns a terminal status while the queue is empty.
C11_DoneToIdleOnlyByRead ==
    [][DoneToIdle => (ReadCycleEnds /\ dev'.read_queue = <<>>)]_vars

\* C11, amended: the state machine leaves DONE for IDLE only with an empty
\* queue, in a read that returns a terminal status or in a start that begins
\* a new job; and while the device exists the queue changes only by a
\* received image appended at its tail, by its head becoming the image that
\* is read, or by a purge when the job status becomes CANCELLED.
C11_QueueIsFifo ==
    [][/\ DoneToIdle =>
             /\ dev'.read_queue = <<>>
             /\ ReadCycleEnds \/ JobBegins
       /\ (DeviceStays /\ dev'.read_queue # dev.read_queue) =>
             \/ /\ Len(dev'.read_queue) = Len(dev.read_queue) + 1
                /\ SubSeq(dev'.read_queue, 1, Len(dev.read_queue))
                      = dev.read_queue
             \/ /\ dev.read_queue # <<>>
                /\ dev'.read_queue = Tail(dev.read_queue)
                /\ dev.read_image = NoImage
                /\ dev'.read_image \in {Head(dev.read_queue), NoImage}
             \/ /\ dev'.read_queue = <<>>
                /\ dev'.job_status = "CANCELLED"]_vars

\* C11, its case: the job is DONE and a later read cycle has reached the
\* second image of the queue
C11_SecondImageAfterDone ==
    /\ dev.stm_state = "DONE"
    /\ dev.read_image # NoImage
    /\ dev.read_image.n = 2
    /\ dev.job_status = "GOOD"


----------------------------------------------------------------------------
(* C12: the cancel request *)

\* device_cancel called now, the weak compare-exchange failing spuriously or
\* not, and what the step leaves
CancelCall(d, cas) ==
    Settle(device_cancel([d EXCEPT !.h_cancel = CancelSeen(d),
                                   !.cas_spurious = cas]))

\* the step holds a cancel request that took effect: the compare-and-set
\* from SCANNING together with the trigger of the cancel event
CancelTakesEffect ==
    /\ dev.stm_state = "SCANNING"
    /\ dev'.stm_state = "CANCEL_REQ"
    /\ dev'.stm_cancel_event = "triggered"

\* the step is the event loop running device_start_do for a job that a
\* device_start of the frontend has begun
JobStartRuns == dev.call_pending /\ ~dev'.call_pending

----------------------------------------------------------------------------
(* C13: device_open *)

\* device_open finds the device and finds it READY
OpenFindsDevice(d) == device_find(d) /\ HasFlag(d, "READY")

\* C13: device_open returns INVAL when the device is not found or not READY
\* and, the device being found and READY, DEVICE_BUSY when its state is not
\* CLOSED, and changes nothing in both cases; otherwise it returns GOOD, takes
\* the state from CLOSED to IDLE and adds exactly one reference; and the
\* frontend gets a handle only in a step that does the latter.
C13_OpenChecksDevice ==
    /\ [](LET r == device_open(dev)
          IN /\ r.pc = "idle"
             /\ ~OpenFindsDevice(dev) =>
                   r.status = "INVAL" /\ r.dev = dev
             /\ (OpenFindsDevice(dev) /\ dev.stm_state # "CLOSED") =>
                   r.status = "DEVICE_BUSY" /\ r.dev = dev
             /\ (OpenFindsDevice(dev) /\ dev.stm_state = "CLOSED") =>
                   /\ r.status = "GOOD"
                   /\ r.dev.stm_state = "IDLE"
                   /\ r.dev.refcnt = dev.refcnt + 1
                   /\ r.dev.flags = dev.flags)
    /\ [][(fe_handle' /\ ~fe_handle) =>
             /\ OpenFindsDevice(dev)
             /\ dev.stm_state = "CLOSED"
             /\ dev'.stm_state = "IDLE"
             /\ dev'.refcnt = dev.refcnt + 1
             /\ dev'.flags = dev.flags]_vars

\* C13, its case: the frontend may call device_open on a READY device that
\* is open already, and the call returns DEVICE_BUSY
C13_OpenFindsBusy ==
    /\ fe_pc = "idle"
    /\ dev.failure = "none"
    /\ fe_handle
    /\ dev.stm_state = "IDLE"
    /\ dev.refcnt = 2
    /\ device_open(dev).status = "DEVICE_BUSY"


----------------------------------------------------------------------------
(* C14: the rejections of device_start *)

\* the option states device_start may find: the one the device has and,
\* while devopt_set_option is not refused, a window without lines or one
\* without pixels
StartOptions ==
    IF HasFlag(dev, "SCANNING") THEN {dev.opt}
    ELSE {dev.opt, [dev.opt EXCEPT !.lines = 0],
          [dev.opt EXCEPT !.pixels_per_line = 0]}

\* C14: with the SCANNING flag set, or with options that give no lines or no
\* pixels per line, device_start returns INVAL without blocking and leaves
\* the device as it is: flags, state, job status, job URI, the count of
\* received images, the queue and the requests in flight.
C14_StartRejected ==
    \A o \in StartOptions :
        LET d == [dev EXCEPT !.opt = o]
            r == device_start(d)
        IN (HasFlag(d, "SCANNING") \/ o.lines = 0 \/ o.pixels_per_line = 0) =>
              /\ r.status = "INVAL"
              /\ r.pc = "idle"
              /\ r.dev = d

\* C14, its case: the frontend may call device_start while the scan it has
\* started is running, and the call is rejected
C14_StartWhileScanning ==
    /\ fe_pc = "idle" /\ fe_handle
    /\ dev.failure = "none"
    /\ HasFlag(dev, "SCANNING")
    /\ dev.stm_state = "SCANNING"
    /\ dev.http_pending # EmptyBag
    /\ device_start(dev).status = "INVAL"
    /\ device_start(dev).dev = dev


----------------------------------------------------------------------------
(* C15: the SCANNING flag of a closed device *)

\* C15: the SCANNING flag is never set while the state machine of a device
\* is CLOSED, so that after a close and a new open neither set-option nor
\* start is rejected because of the flag.
C15_ClosedDeviceNotScanning ==
    (dev.mem = "alive" /\ dev.stm_state = "CLOSED" /\ ~fe_handle) =>
        /\ ~HasFlag(dev, "SCANNING")
        /\ device_open(dev).status = "GOOD" =>
              /\ (dev.opt.lines # 0 /\ dev.opt.pixels_per_line # 0) =>
                    device_start(device_open(dev).dev).status # "INVAL"
              /\ \A o \in OptChoices :
                    device_set_option(device_open(dev).dev, o).status = "GOOD"


----------------------------------------------------------------------------
(* C16: the CLOSED state and the handle of the frontend *)

\* C16: the state machine of a device is CLOSED exactly when the frontend
\* holds no handle of it.
C16_ClosedIffNoHandle ==
    dev.mem = "alive" => (dev.stm_state = "CLOSED" <=> ~fe_handle)


----------------------------------------------------------------------------
(* C17, C18: device_geom_compute *)

\* device_geom_compute has returned
GeomComputed == geom.calls > 0

\* the offset and the length before the window is moved back: what
\* device_geom_compute has before its test of off + len
GeomUnclippedEnd ==
    math_mm2px_res(geom.tl, geom.units)
       + math_bound(math_mm2px_res(geom.br - geom.tl, geom.units),
                    Max2(geom.minlen, 1), geom.maxlen)

\* C17: for well-formed arguments the device_geom returned has off >= 0,
\* off + len <= maxlen and max(minlen, 1) <= len <= maxlen, and a second
\* call with the same arguments returns the same device_geom.
C17_GeomWithinDevice ==
    GeomComputed =>
        /\ geom.off >= 0
        /\ geom.off + geom.len <= geom.maxlen
        /\ Max2(geom.minlen, 1) <= geom.len
        /\ geom.len <= geom.maxlen
        /\ [off |-> geom.off, len |-> geom.len, skip |-> geom.skip]
              = device_geom_compute(geom.tl, geom.br, geom.minlen,
                                    geom.maxlen, geom.res, geom.units)

\* C17, its case: a window that begins inside the device and ends beyond
\* it has been computed twice
C17_GeomMovedBack ==
    /\ geom.calls = 2
    /\ geom.tl > 0
    /\ geom.br > geom.tl
    /\ GeomUnclippedEnd > geom.maxlen
    /\ geom.off + geom.len = geom.maxlen
    /\ geom.skip > 0

\* C18, as claimed: with br = tl the length is max(minlen, 1), off + len is
\* at most maxlen, and skip is nonzero exactly when the unclipped off + len
\* exceeded maxlen, at every resolution.
C18_EmptyWindowSkipIffExceeded ==
    (GeomComputed /\ geom.br = geom.tl) =>
        /\ geom.len = Max2(geom.minlen, 1)
        /\ geom.off + geom.len <= geom.maxlen
        /\ geom.skip # 0 <=> GeomUnclippedEnd > geom.maxlen

\* C18, amended: with br = tl the length is max(minlen, 1), off + len is at
\* most maxlen, and skip is the excess of the unclipped off + len over maxlen
\* times res / units, rounded down: nonzero exactly when that excess times
\* res is at least units.
C18_EmptyWindowSkipScaled ==
    (GeomComputed /\ geom.br = geom.tl) =>
        /\ geom.len = Max2(geom.minlen, 1)
        /\ geom.off + geom.len <= geom.maxlen
        /\ geom.skip # 0 <=>
              (GeomUnclippedEnd - geom.maxlen) * geom.res >= geom.units

\* C18, its case: an empty window whose minimal length does not fit behind
\* its offset, at a resolution below the reference one
C18_EmptyWindowMovedBack ==
    /\ GeomComputed
    /\ geom.br = geom.tl
    /\ geom.tl > 0
    /\ geom.res < geom.units
    /\ GeomUnclippedEnd > geom.maxlen
    /\ geom.skip > 0


----------------------------------------------------------------------------
(* C19: the requests in flight *)

\* C19: a device never has more than one HTTP request in flight.
C19_OneRequestInFlight ==
    BagCardinality(dev.http_pending) <= 1


----------------------------------------------------------------------------
(* C20: the transitions of the state machine *)

\* the transitions listed for the state machine
ListedTransitions ==
    {<<"CLOSED", "IDLE">>, <<"IDLE", "SCANNING">>,
     <<"SCANNING", "CANCELLING">>, <<"SCANNING", "CLEANUP">>,
     <<"SCANNING", "DONE">>, <<"SCANNING", "CANCEL_REQ">>,
     <<"CANCEL_REQ", "CANCELLING">>, <<"CANCEL_REQ", "CANCEL_WAIT">>,
     <<"CANCEL_WAIT", "CANCELLING">>, <<"CANCEL_WAIT", "DONE">>,
     <<"CANCELLING", "DONE">>, <<"CLEANUP", "DONE">>,
     <<"DONE", "IDLE">>, <<"IDLE", "CLOSED">>}

\* C20: while the device exists, every change of its state machine state is
\* one of the listed transitions.
C20_OnlyListedTransitions ==
    [][(DeviceStays /\ dev'.stm_state # dev.stm_state) =>
          <<dev.stm_state, dev'.stm_state>> \in ListedTransitions]_vars


----------------------------------------------------------------------------
(* C21: the queue of a cancelled job *)

\* C21: while the job status is CANCELLED the queue of received images is
\* empty.
C21_CancelledQueueEmpty ==
    (dev.mem = "alive" /\ dev.job_status = "CANCELLED") =>
        dev.read_queue = <<>>


----------------------------------------------------------------------------
(* C22: the job status within one job *)

\* the statuses device_job_set_status is called with
SetStatusArguments == {"GOOD", "CANCELLED", "IO_ERROR", "JAMMED", "NO_DOCS"}

----------------------------------------------------------------------------
(* C23: the end of a job by FINISH *)

\* the device once the reply to the request q is taken from the HTTP client
ReplyTaken(q) == [dev EXCEPT !.http_pending = @ (-) SetToBag({q})]

\* the results with next == FINISH the reply to the current operation may
\* decode to
FinishResults ==
    {r \in device_proto_op_decode(dev, dev.proto_op_current) :
        r.next = "FINISH"}

\* C23: device_stm_op_callback with a result whose next is FINISH leaves the
\* state DONE, submits no request, arms no timer, and leaves a job without
\* a received image with a status other than GOOD.
C23_FinishEndsJob ==
    \A q \in BagToSet(dev.http_pending) \ {"CAPS"} :
        \A r \in FinishResults :
            LET n == device_stm_op_callback(ReplyTaken(q), r)
            IN /\ n.stm_state = "DONE"
               /\ n.http_pending = ReplyTaken(q).http_pending
               /\ n.timer_armed = dev.timer_armed
               /\ n.proto_op_current = dev.proto_op_current
               /\ n.job_images_received = 0 => n.job_status # "GOOD"

\* C23, its case: the reply to SCAN, the only request in flight of a job
\* with status GOOD and no image, may decode to FINISH with status GOOD, and
\* the job then ends in DONE with IO_ERROR
C23_FinishWithoutImage ==
    /\ dev.failure = "none"
    /\ dev.stm_state = "SCANNING"
    /\ dev.http_pending = SetToBag({"SCAN"})
    /\ dev.job_status = "GOOD"
    /\ dev.job_images_received = 0
    /\ \E r \in FinishResults :
          /\ r.status = "GOOD"
          /\ device_stm_op_callback(ReplyTaken("SCAN"), r).stm_state = "DONE"
          /\ device_stm_op_callback(ReplyTaken("SCAN"), r).job_status
                = "IO_ERROR"


----------------------------------------------------------------------------
(* C24: a cancel while the SCAN request is in flight *)

\* the SCAN request of a job is in flight and nothing else is pending: no
\* job URI yet, no other request, no timer
ScanInFlight(d) ==
    /\ d.mem = "alive" /\ d.failure = "none"
    /\ d.proto_op_current = "SCAN"
    /\ d.http_pending = SetToBag({"SCAN"})
    /\ ~d.timer_armed
    /\ ~d.location

\* C24: with SCAN in flight, a cancel call whose compare-and-set succeeds
\* takes SCANNING to CANCEL_REQ, the cancel event delivered next takes
\* CANCEL_REQ to CANCEL_WAIT, and the reply to SCAN then leaves CANCELLING
\* with CANCEL in flight if it brought a job URI and DONE otherwise, in both
\* cases with job status CANCELLED and an empty queue.
C24_CancelDuringScan ==
    ScanInFlight(dev) =>
        /\ dev.stm_state = "SCANNING" =>
              device_cancel(dev).stm_state = "CANCEL_REQ"
        /\ (dev.stm_state = "CANCEL_REQ"
               /\ dev.stm_cancel_event = "triggered") =>
              device_stm_cancel_event_callback(dev).stm_state = "CANCEL_WAIT"
        /\ dev.stm_state = "CANCEL_WAIT" =>
              \A r \in device_proto_op_decode(dev, "SCAN") :
                  LET n == device_stm_op_callback(ReplyTaken("SCAN"), r)
                  IN /\ n.job_status = "CANCELLED"
                     /\ n.read_queue = <<>>
                     /\ IF n.location
                           THEN /\ n.stm_state = "CANCELLING"
                                /\ n.http_pending = SetToBag({"CANCEL"})
                           ELSE /\ n.stm_state = "DONE"
                                /\ n.http_pending = EmptyBag


----------------------------------------------------------------------------
(* C25: delayed retries *)

\* the results the reply to the current operation may decode to that go on
\* with another operation, outside a deferred cancel
NextResults ==
    IF dev.mem # "alive" \/ dev.stm_state = "CANCEL_WAIT" THEN {}
    ELSE {r \in device_proto_op_decode(dev, dev.proto_op_current) :
             r.next # "FINISH"}

\* C25: a result with a delay schedules one timer and submits nothing, also
\* when it is not the first delayed result of the job; the timer, when it
\* fires, submits the pending operation once; a result without a delay
\* submits the next operation at once; and the count of failed attempts is
\* back at 0 when the result brought a job URI or an image.
C25_DelayedRetriesGoOn ==
    /\ \A q \in BagToSet(dev.http_pending) \ {"CAPS"} :
          \A r \in NextResults :
              LET n == device_stm_op_callback(ReplyTaken(q), r)
              IN /\ n.failure = "none"
                 /\ n.proto_op_current = r.next
                 /\ IF r.delay # 0
                       THEN /\ n.timer_armed
                            /\ n.http_pending = ReplyTaken(q).http_pending
                       ELSE /\ n.timer_armed = dev.timer_armed
                            /\ n.http_pending
                                  = ReplyTaken(q).http_pending
                                       (+) SetToBag({r.next})
                 /\ (r.location \/ r.image # NoImage) => n.failed_attempt = 0
    /\ (dev.mem = "alive" /\ dev.timer_armed) =>
          device_stm_timer_callback(dev).http_pending
             = dev.http_pending (+) SetToBag({dev.proto_op_current})


----------------------------------------------------------------------------
(* C26: a cancel and the pending timer *)

\* the devices a cancel may be performed on in the current state: on the
\* delivery of the cancel event, or on the failure of the request in flight
CancelInputs ==
    IF dev.failure # "none" \/ dev.mem # "alive" THEN {}
    ELSE (IF dev.stm_cancel_event = "triggered"
             THEN {[dev EXCEPT !.stm_cancel_event = "idle"]} ELSE {})
         \cup {device_job_set_status(ReplyTaken(q), "IO_ERROR") :
                  q \in BagToSet(dev.http_pending) \ {"CAPS"}}

\* the device after each cancel that is performed
CancelsPerformed ==
    {device_stm_cancel_perform(d).dev :
        d \in {c \in CancelInputs : device_stm_cancel_perform(c).ok}}

\* C26: a cancel that is performed, and the deletion of the device, leave
\* no request in flight but the CANCEL request of the cancel, and no timer
\* that would fire afterwards and submit an operation.
C26_CancelStopsTimer ==
    /\ \A n \in CancelsPerformed :
          /\ n.http_pending = SetToBag({"CANCEL"})
          /\ ~n.timer_armed
    /\ (dev.failure = "none" /\ device_find(dev)) =>
          /\ device_del(dev).http_pending = EmptyBag
          /\ ~device_del(dev).timer_armed


----------------------------------------------------------------------------
(* C27: the broadcast after a state change *)

\* a step of another thread changes the state while the frontend thread
\* waits on stm_cond
StateChangesUnderWaiter ==
    /\ dev.mem = "alive" /\ dev'.mem = "alive"
    /\ "fe" \in dev.stm_cond
    /\ dev'.stm_state # dev.stm_state

\* C27: every change of the state is followed by a broadcast before the
\* step ends, the change made by the compare-and-set of a cancel included:
\* a thread that waited when the state changed is runnable after the step.
C27_BroadcastAfterStateChange ==
    [][StateChangesUnderWaiter => "fe" \notin dev'.stm_cond]_vars


----------------------------------------------------------------------------
(* C28: the READY flag *)

\* the step is the completion of a capabilities query that succeeded
CapsFetched ==
    /\ BagIn("CAPS", dev.http_pending)
    /\ dev' = Settle(device_scanner_capabilities_callback(
                        ReplyTaken("CAPS"), TRUE))

\* the step takes the device out of the table
DeviceDeleted == HasFlag(dev, "LISTED") /\ ~HasFlag(dev', "LISTED")

\* C28: a READY device is not INIT_WAIT and has a protocol handler bound;
\* READY is set only by a capabilities query that succeeded, it is clear
\* once the device has been deleted from the table, and nothing else clears
\* it.
C28_ReadyDeviceIsProbed ==
    /\ [](HasFlag(dev, "READY") =>
             /\ dev.mem = "alive"
             /\ ~HasFlag(dev, "INIT_WAIT")
             /\ dev.proto # "NONE"
             /\ HasFlag(dev, "LISTED"))
    /\ [][/\ (~HasFlag(dev, "READY") /\ HasFlag(dev', "READY"))
                => CapsFetched
          /\ (DeviceDeleted /\ dev'.failure = "none")
                => ~HasFlag(dev', "READY")
          /\ (HasFlag(dev, "READY") /\ ~HasFlag(dev', "READY")
              /\ dev'.failure = "none")
                => DeviceDeleted]_vars

\* the device became READY on its second endpoint, after the first failed
C28_ReadyOnSecondEndpoint ==
    HasFlag(dev, "READY") /\ dev.endpoint_current = 2


----------------------------------------------------------------------------
(* C29: the endpoint prober *)

\* the device is in the table and waits for its capabilities
Probing(d) == d.mem = "alive" /\ HasFlag(d, "LISTED") /\ HasFlag(d, "INIT_WAIT")

\* the device after the completion of the query in flight
Probed(ok) ==
    device_scanner_capabilities_callback(ReplyTaken("CAPS"), ok)

\* C29: while a device is probed one capabilities query is in flight, for
\* the candidate endpoint_current, with the handler of its protocol bound;
\* a query that succeeds makes the device READY on that candidate; one that
\* fails moves to the next candidate in list order and deletes the device
\* when it was the last; the candidate changes in no other way, so the
\* candidates before the current one have all failed; and every probed
\* device eventually is READY or out of the table.
C29_ProbeInListOrder ==
    /\ [](Probing(dev) =>
             /\ dev.http_pending = SetToBag({"CAPS"})
             /\ dev.endpoint_current \in 1..Len(dev.endpoints)
             /\ dev.proto = dev.endpoints[dev.endpoint_current].proto
             /\ HasFlag(Probed(TRUE), "READY")
             /\ HasFlag(Probed(TRUE), "LISTED")
             /\ ~HasFlag(Probed(TRUE), "INIT_WAIT")
             /\ Probed(TRUE).endpoint_current = dev.endpoint_current
             /\ Probed(TRUE).proto = dev.proto
             /\ Probed(TRUE).http_pending = EmptyBag
             /\ IF dev.endpoint_current < Len(dev.endpoints)
                   THEN /\ Probing(Probed(FALSE))
                        /\ Probed(FALSE).endpoint_current
                              = dev.endpoint_current + 1
                        /\ Probed(FALSE).endpoints = dev.endpoints
                   ELSE ~HasFlag(Probed(FALSE), "LISTED"))
    /\ [][(Probing(dev) /\ dev' # dev) =>
             \/ \E ok \in BOOLEAN : dev' = Settle(Probed(ok))
             \/ dev' = Settle(device_del(dev))]_vars
    /\ [][(~Probing(dev) /\ Probing(dev')) => dev'.endpoint_current = 1]_vars
    /\ (Probing(dev) ~> (HasFlag(dev, "READY") \/ ~HasFlag(dev, "LISTED")))
    /\ []<>(~Probing(dev))

\* the device is READY on its third candidate, of another protocol than
\* the first
C29_ReadyOnThirdEndpoint ==
    /\ HasFlag(dev, "READY")
    /\ dev.endpoint_current = 3
    /\ dev.proto = dev.endpoints[3].proto
    /\ dev.endpoints[1].proto # dev.endpoints[3].proto


----------------------------------------------------------------------------
(* C30: the delivery of the cancel event *)

\* C30: the cancel event is delivered in state CANCEL_REQ only: while it is
\* triggered and not yet delivered the machine stays in CANCEL_REQ, so the
\* callback never finds the job DONE, the machine IDLE or a later job, and
\* never moves the machine out of DONE or IDLE.
C30_CancelEventInCancelReq ==
    (dev.failure = "none" /\ dev.mem = "alive"
     /\ dev.stm_cancel_event = "triggered")
        => /\ dev.stm_state = "CANCEL_REQ"
           /\ device_stm_cancel_event_callback(dev).stm_state
                 \in {"CANCEL_WAIT", "CANCELLING"}


----------------------------------------------------------------------------
(* C31: the assertion on stm_timer *)

\* C31: the assertion stm_timer == NULL of device_stm_op_callback never
\* fails: whenever a result with a delay can be processed that reaches it
\* (a result that does not finish the job, outside a deferred cancel), no
\* delay timer is recorded for the device, be it the first delayed result
\* of the job, a later one, or one of a later job.
C31_NoTimerAtDelayedResult ==
    /\ dev.failure # "assert_stm_timer"
    /\ (dev.failure = "none" /\ dev.http_pending # EmptyBag
        /\ \E r \in NextResults : r.delay # 0)
          => dev.stm_timer = "null"


----------------------------------------------------------------------------
(* C32: the assertion on the job status in device_read *)

\* device_read is past its wait loop with READING set and no current image:
\* the machine does not work and the queue is empty, and the job was not
\* cancelled
ReadFindsJobOver(d) ==
    /\ d.failure = "none"
    /\ d.mem = "alive"
    /\ HasFlag(d, "READING")
    /\ d.read_image = NoImage
    /\ ~device_stm_state_working(d)
    /\ d.read_queue = <<>>
    /\ d.job_status # "CANCELLED"

\* C32: the assertion status != GOOD of device_read never fails: whenever
\* the frontend can be in device_read with the job over and nothing to
\* read, the job status is not GOOD, however the machine left the working
\* states.
C32_JobOverIsNotGood ==
    /\ dev.failure # "assert_read_status"
    /\ (ReadFindsJobOver(dev) /\ fe_handle /\ fe_pc \in {"idle", "read_wait"})
          => dev.job_status # "GOOD"


----------------------------------------------------------------------------
(* C33: LISTED, HALTED and the reference count *)

\* the references the table and an open handle account for
RefsAccounted(d) ==
    (IF HasFlag(d, "LISTED") THEN 1 ELSE 0)
       + (IF d.stm_state # "CLOSED" THEN 1 ELSE 0)

\* C33: a device that exists and has not been freed has exactly one of the
\* flags LISTED and HALTED, HALTED once set stays and LISTED does not come
\* back, and the reference count is one for the table while LISTED plus one
\* while the state is not CLOSED.
C33_RefcountAccounted ==
    /\ []((dev.failure = "none" /\ dev.mem = "alive") =>
             /\ HasFlag(dev, "LISTED") # HasFlag(dev, "HALTED")
             /\ dev.refcnt = RefsAccounted(dev))
    /\ [][(HasFlag(dev, "HALTED") /\ dev'.failure = "none")
             => (HasFlag(dev', "HALTED") /\ ~HasFlag(dev', "LISTED"))]_vars

====
